---- MODULE Spec2Model ----
(***************************************************************************)
(* Rehearsal scheduler (src/scheduler.py): the availability ledger of      *)
(* each actor, the calendar's group queries, the feasibility check         *)
(* scene_works and the backtracking search schedule / schedule_solve.      *)
(*                                                                         *)
(* Times are integers counted in quarter hours: the source's interval 0.5  *)
(* is 2, its slot 1 is 4, 1.5 is 6, 2 is 8, 2.5 is 10.  With an interval   *)
(* of 0.5 every sum and quotient the source computes is exact in binary    *)
(* floating point, so the integer arithmetic below is the source's.        *)
(* Python's exceptions are modelled as the value "KeyError" of the         *)
(* operators that can raise; Python's lists are sequences, and a list      *)
(* index i of the source is the sequence index i+1 here.                   *)
(***************************************************************************)
EXTENDS Integers, Sequences, FiniteSets, TLC

VARIABLES
    actor_objects,  \* Calendar.actor_objects: name -> Actor.conflict_chart
    err,            \* outcome of the last calendar call: "none" or "KeyError"
    nops,           \* number of calendar calls made so far
    log,            \* harness: the calendar calls made, in order
    hist,           \* harness: actor_objects before each call of log
    run,            \* the frame of the schedule call: its locals
    prev,           \* the caller's copy of the previous schedule result
    run2            \* the frame of a second schedule call running at the
                    \* same time as the first (used by SpecTwo)

vars == <<actor_objects, err, nops, log, hist, run, prev, run2>>

---------------------------------------------------------------------------
(* Bounds of the model *)

\* calendar edits made before a search in Spec
MaxOps == 1
\* calendar calls made by the harness in SpecCal
MaxCalls == 2

---------------------------------------------------------------------------
(* The calendar's data (Calendar.__init__ arguments) *)

names == <<"A", "B">>

interval == 2

day_time_chart == [D1 |-> <<4, 6, 8, 10>>, D2 |-> <<4, 6>>]

\* default of scene_works' time_end parameter
DefaultTimeEnd == 9000000

\* The task registry (Scheduler.scenes): name -> Scene(length, all_actors)
scenes == [S1 |-> [length |-> 2, all_actors |-> <<"A">>],
           S2 |-> [length |-> 2, all_actors |-> <<"A", "B">>],
           S3 |-> [length |-> 5, all_actors |-> <<>>]]

Range(s) == {s[k] : k \in DOMAIN s}

\* Values a caller passes: days (one unknown to the grid), names (one
\* unknown to the calendar), slot times (12 lies past the end of every day)
DayArgs == DOMAIN day_time_chart \cup {"D9"}
NameArgs == Range(names) \cup {"Z"}
TimeArgs == {4, 6, 8, 10, 12}

---------------------------------------------------------------------------
(* Actor *)

\* Actor.create_conflict_chart: every slot of every day of the grid, available
create_conflict_chart ==
    [day \in DOMAIN day_time_chart |->
        [timeblock \in Range(day_time_chart[day]) |-> TRUE]]

\* self.conflict_chart[day][time] = value, for each time of times in turn:
\* an unknown time is a new key of the inner dict
SetTimes(chart_day, times, value) ==
    [t \in DOMAIN chart_day \cup Range(times) |->
        IF t \in Range(times) THEN value ELSE chart_day[t]]

\* Actor.is_available: "True", "False", or "KeyError" when the lookup
\* conflict_chart[day][time] fails before an unavailable time is met
Actor_is_available(conflict_chart, day, times) ==
    LET missing(k) == \/ day \notin DOMAIN conflict_chart
                      \/ times[k] \notin DOMAIN conflict_chart[day]
        stops(k) == missing(k) \/ conflict_chart[day][times[k]] = FALSE
        S == {k \in DOMAIN times : stops(k)}
    IN  IF S = {} THEN "True"
        ELSE LET k == CHOOSE m \in S : \A n \in S : m <= n
             IN  IF missing(k) THEN "KeyError" ELSE "False"

---------------------------------------------------------------------------
(* Calendar *)

\* Calendar.create_actor_objects
create_actor_objects ==
    [name \in Range(names) |-> create_conflict_chart]

\* The loop of Calendar.add_conflict / remove_conflict over conflict[2],
\* writing value: the lookups actor_objects[name] and conflict_chart[day]
\* raise KeyError at the first time, before anything is written
WriteConflict(ao, conflict, value) ==
    LET name == conflict[1]
        day == conflict[2]
        times == conflict[3]
    IN  IF times = <<>> THEN [err |-> "none", actor_objects |-> ao]
        ELSE IF name \notin DOMAIN ao \/ day \notin DOMAIN ao[name]
        THEN [err |-> "KeyError", actor_objects |-> ao]
        ELSE [err |-> "none",
              actor_objects |->
                  [ao EXCEPT ![name][day] = SetTimes(@, times, value)]]

\* add_conflict that flips the times it is given instead of setting them
\* to False
Mut_add_conflict(ao, conflict) ==
    LET name == conflict[1]
        day == conflict[2]
        times == conflict[3]
    IN  IF times = <<>> THEN [err |-> "none", actor_objects |-> ao]
        ELSE IF name \notin DOMAIN ao \/ day \notin DOMAIN ao[name]
        THEN [err |-> "KeyError", actor_objects |-> ao]
        ELSE [err |-> "none",
              actor_objects |->
                  [ao EXCEPT ![name][day] =
                      [t \in DOMAIN @ \cup Range(times) |->
                          IF t \in Range(times)
                          THEN (t \in DOMAIN @ /\ ~@[t])
                          ELSE @[t]]]]

\* Calendar.add_conflict
Calendar_add_conflict(ao, conflict) == WriteConflict(ao, conflict, FALSE)

\* remove_conflict that clears only the first time of the list
Mut_remove_conflict(ao, conflict) ==
    WriteConflict(ao, <<conflict[1], conflict[2], SubSeq(conflict[3], 1, 1)>>,
                  TRUE)

\* Calendar.remove_conflict
Calendar_remove_conflict(ao, conflict) == WriteConflict(ao, conflict, TRUE)

\* Calendar.is_available: the actors are visited in list order and the first
\* one that is not available decides: "False", or "KeyError" when its lookup
\* (of the actor, the day or a time) fails
Calendar_is_available(ao, actor_names, day, times) ==
    LET res(k) == IF actor_names[k] \notin DOMAIN ao THEN "KeyError"
                  ELSE Actor_is_available(ao[actor_names[k]], day, times)
        S == {k \in DOMAIN actor_names : res(k) # "True"}
    IN  IF S = {} THEN "True"
        ELSE res(CHOOSE m \in S : \A n \in S : m <= n)

\* clear_conflicts that marks every key the ledgers hold available, instead
\* of building the ledgers anew from the grid
Mut_clear_conflicts ==
    [name \in DOMAIN actor_objects |->
        [day \in DOMAIN actor_objects[name] |->
            [t \in DOMAIN actor_objects[name][day] |-> TRUE]]]

\* Calendar.clear_conflicts
Calendar_clear_conflicts == create_actor_objects

---------------------------------------------------------------------------
(* Scheduler: the feasibility check *)

\* int(x / interval): Python's int() truncates towards zero
IntDiv(x) == IF x >= 0 THEN x \div interval ELSE -((-x) \div interval)

\* Scheduler.generate_times: time_end itself is not included
generate_times(time_start, time_end) ==
    LET num_timeblocks == IntDiv(time_end - time_start)
    IN  [i \in 1..num_timeblocks |-> time_start + interval * (i - 1)]

\* Scheduler.scene_works: any exception of the calendar query means False
scene_works(ao, scene, day, time_start, time_end) ==
    LET num_timeblocks == scenes[scene].length
        scene_time_end == time_start + num_timeblocks * interval
    IN  IF scene_time_end > time_end THEN FALSE
        ELSE Calendar_is_available(ao, scenes[scene].all_actors, day,
                 generate_times(time_start, scene_time_end)) = "True"

\* Scheduler.schedule_is_valid
schedule_is_valid(ao, scene, day, time_start) ==
    scene_works(ao, scene, day, time_start, DefaultTimeEnd)

\* scene_works whose lookups insert a time the ledger does not hold, marked
\* available (a read with setdefault), instead of only reading
Mut_scene_works_ledger(ao, scene, day, time_start, time_end) ==
    LET scene_time_end == time_start + scenes[scene].length * interval
        times == Range(generate_times(time_start, scene_time_end))
        read(chart) == [t \in DOMAIN chart \cup times |->
                           IF t \in DOMAIN chart THEN chart[t] ELSE TRUE]
    IN  IF scene_time_end > time_end THEN ao
        ELSE [name \in DOMAIN ao |->
                 IF /\ name \in Range(scenes[scene].all_actors)
                    /\ day \in DOMAIN ao[name]
                 THEN [ao[name] EXCEPT ![day] = read(ao[name][day])]
                 ELSE ao[name]]

\* the ledgers after scene_works has returned: scene_works,
\* Calendar.is_available and Actor.is_available only read them
scene_works_ledger(ao, scene, day, time_start, time_end) == ao

---------------------------------------------------------------------------
(* Scheduler: the search.  run holds the locals of one schedule call:      *)
(*   pc                "idle", "solve" (inside schedule_solve) or "done"   *)
(*   days, scene_list  the arguments                                       *)
(*   timeblocks        the timeline, <<day, block>> per position           *)
(*   schedule          the occupancy vector, 0 or 1 per position           *)
(*   final_arrangement scene -> <<day, block>>, or <<>> for the source's   *)
(*                     "" written on backtracking                          *)
(*   stack             the loop index i of every active schedule_solve     *)
(*                     frame; the frame at depth k has scene_idx = k-1     *)
(*   ret               "pending", "dict" (final_arrangement is returned)   *)
(*                     or "None"                                           *)
(*   entered           harness: for every active frame, the occupancy      *)
(*                     vector as it was when the frame was entered         *)

IdleRun ==
    [pc |-> "idle", days |-> <<>>, scene_list |-> <<>>, timeblocks |-> <<>>,
     schedule |-> <<>>, final_arrangement |-> <<>>, stack |-> <<>>,
     ret |-> "pending", entered |-> <<>>]

NoPrev == [valid |-> FALSE, ret |-> "pending", final_arrangement |-> <<>>]

RECURSIVE Timeblocks(_)
\* the nested loop of schedule that builds timeblocks
Timeblocks(days) ==
    IF days = <<>> THEN <<>>
    ELSE [k \in DOMAIN day_time_chart[Head(days)] |->
              <<Head(days), day_time_chart[Head(days)][k]>>]
         \o Timeblocks(Tail(days))

\* schedule keeping the occupancy vector of the call before it, when that
\* one has the length of the new timeline, instead of making a new one
Mut_schedule_begin(days, scene_list) ==
    LET timeblocks == Timeblocks(days)
    IN  [pc |-> "solve", days |-> days, scene_list |-> scene_list,
         timeblocks |-> timeblocks,
         schedule |-> IF Len(run.schedule) = Len(timeblocks)
                      THEN run.schedule
                      ELSE [k \in DOMAIN timeblocks |-> 0],
         final_arrangement |-> <<>>,
         stack |-> <<0>>,
         ret |-> "pending",
         entered |-> <<IF Len(run.schedule) = Len(timeblocks)
                       THEN run.schedule
                       ELSE [k \in DOMAIN timeblocks |-> 0]>>]

\* schedule, up to its call of schedule_solve with scene_idx = 0
schedule_begin(days, scene_list) ==
    LET timeblocks == Timeblocks(days)
    IN  [pc |-> "solve", days |-> days, scene_list |-> scene_list,
         timeblocks |-> timeblocks,
         schedule |-> [k \in DOMAIN timeblocks |-> 0],
         final_arrangement |-> <<>>,
         stack |-> <<0>>,
         ret |-> "pending",
         entered |-> <<[k \in DOMAIN timeblocks |-> 0]>>]

\* schedule_open with the test schedule[j] == 1 left out: only the range of
\* the indices is checked
Mut_schedule_open(schedule, i, timeblocks_required) ==
    \A j \in i..(i + timeblocks_required - 1) : j < Len(schedule)

\* the inner loop of schedule_solve that checks the occupancy vector: an
\* index past its end raises IndexError, which counts as not open
schedule_open(schedule, i, timeblocks_required) ==
    \A j \in i..(i + timeblocks_required - 1) :
        /\ j < Len(schedule)
        /\ schedule[j + 1] # 1

\* SetBlocks that writes the first block of the range only
Mut_SetBlocks(schedule, i, timeblocks_required, value) ==
    [k \in DOMAIN schedule |->
        IF k - 1 = i /\ timeblocks_required > 0 THEN value ELSE schedule[k]]

\* schedule[j] = value for j in range(i, i + timeblocks_required)
SetBlocks(schedule, i, timeblocks_required, value) ==
    [k \in DOMAIN schedule |->
        IF k - 1 >= i /\ k - 1 < i + timeblocks_required
        THEN value ELSE schedule[k]]

\* SetArrangement that makes a new dictionary holding the one scene,
\* instead of updating current_arrangement
Mut_SetArrangement(current_arrangement, scene, value) ==
    [s \in {scene} |-> value]

\* current_arrangement[scene] = value
SetArrangement(current_arrangement, scene, value) ==
    [s \in DOMAIN current_arrangement \cup {scene} |->
        IF s = scene THEN value ELSE current_arrangement[s]]

scene_idx(r) == Len(r.stack) - 1

\* schedule_solve's base case, reached with every scene placed: True is
\* returned through every frame and schedule returns final_arrangement
solve_base(r) ==
    [r EXCEPT !.pc = "done", !.stack = <<>>, !.ret = "dict",
              !.entered = <<>>]

\* solve_try whose loop steps by the scene's length after a start that
\* does not work, instead of by one
Mut_solve_try(ao, r) ==
    LET i == r.stack[Len(r.stack)]
        scene == r.scene_list[scene_idx(r) + 1]
        timeblocks_required == scenes[scene].length
        day == r.timeblocks[i + 1][1]
        time_start == r.timeblocks[i + 1][2]
    IN  IF /\ schedule_open(r.schedule, i, timeblocks_required)
           /\ schedule_is_valid(ao, scene, day, time_start)
        THEN [r EXCEPT
                 !.schedule = SetBlocks(@, i, timeblocks_required, 1),
                 !.final_arrangement =
                     SetArrangement(@, scene, r.timeblocks[i + 1]),
                 !.stack = Append(@, 0),
                 !.entered =
                     Append(@, SetBlocks(r.schedule, i,
                                         timeblocks_required, 1))]
        ELSE [r EXCEPT !.stack[Len(r.stack)] = i + timeblocks_required]

\* one pass of schedule_solve's loop, at index i of the innermost frame
solve_try(ao, r) ==
    LET i == r.stack[Len(r.stack)]
        scene == r.scene_list[scene_idx(r) + 1]
        timeblocks_required == scenes[scene].length
        day == r.timeblocks[i + 1][1]
        time_start == r.timeblocks[i + 1][2]
    IN  IF /\ schedule_open(r.schedule, i, timeblocks_required)
           /\ schedule_is_valid(ao, scene, day, time_start)
        THEN [r EXCEPT
                 !.schedule = SetBlocks(@, i, timeblocks_required, 1),
                 !.final_arrangement =
                     SetArrangement(@, scene, r.timeblocks[i + 1]),
                 !.stack = Append(@, 0),
                 !.entered =
                     Append(@, SetBlocks(r.schedule, i,
                                         timeblocks_required, 1))]
        ELSE [r EXCEPT !.stack[Len(r.stack)] = i + 1]

\* the ledgers after that pass: schedule_is_valid is called when the
\* positions are open
solve_try_ledger(ao, r) ==
    LET i == r.stack[Len(r.stack)]
        scene == r.scene_list[scene_idx(r) + 1]
        timeblocks_required == scenes[scene].length
        day == r.timeblocks[i + 1][1]
        time_start == r.timeblocks[i + 1][2]
    IN  IF schedule_open(r.schedule, i, timeblocks_required)
        THEN scene_works_ledger(ao, scene, day, time_start, DefaultTimeEnd)
        ELSE ao

\* solve_fail that leaves the scene's blocks claimed in the occupancy
\* vector when the calling frame gives the scene up
Mut_solve_fail(r) ==
    IF Len(r.stack) = 1
    THEN [r EXCEPT !.pc = "done", !.stack = <<>>, !.ret = "None",
                   !.entered = <<>>]
    ELSE LET k == Len(r.stack) - 1
             i == r.stack[k]
             scene == r.scene_list[k]
         IN  [r EXCEPT
                 !.final_arrangement = SetArrangement(@, scene, <<>>),
                 !.stack = [SubSeq(r.stack, 1, k) EXCEPT ![k] = i + 1],
                 !.entered = SubSeq(r.entered, 1, k)]

\* solve_fail whose calling frame removes its scene and then tries the same
\* index again, instead of going on with the next one
Mut_solve_retry(r) ==
    IF Len(r.stack) = 1
    THEN [r EXCEPT !.pc = "done", !.stack = <<>>, !.ret = "None",
                   !.entered = <<>>]
    ELSE LET k == Len(r.stack) - 1
             i == r.stack[k]
             scene == r.scene_list[k]
         IN  [r EXCEPT
                 !.schedule = SetBlocks(@, i, scenes[scene].length, 0),
                 !.final_arrangement = SetArrangement(@, scene, <<>>),
                 !.stack = SubSeq(r.stack, 1, k),
                 !.entered = SubSeq(r.entered, 1, k)]

\* solve_fail whose calling frame frees the blocks after the first one
\* only, the first block of the scene staying claimed
Mut_solve_release(r) ==
    IF Len(r.stack) = 1
    THEN [r EXCEPT !.pc = "done", !.stack = <<>>, !.ret = "None",
                   !.entered = <<>>]
    ELSE LET k == Len(r.stack) - 1
             i == r.stack[k]
             scene == r.scene_list[k]
         IN  [r EXCEPT
                 !.schedule = SetBlocks(@, i + 1, scenes[scene].length - 1, 0),
                 !.final_arrangement = SetArrangement(@, scene, <<>>),
                 !.stack = [SubSeq(r.stack, 1, k) EXCEPT ![k] = i + 1],
                 !.entered = SubSeq(r.entered, 1, k)]

\* schedule_solve's loop is over: it returns False.  The calling frame
\* removes its scene and goes on with its next index; with no calling
\* frame left schedule returns None
solve_fail(r) ==
    IF Len(r.stack) = 1
    THEN [r EXCEPT !.pc = "done", !.stack = <<>>, !.ret = "None",
                   !.entered = <<>>]
    ELSE LET k == Len(r.stack) - 1
             i == r.stack[k]
             scene == r.scene_list[k]
         IN  [r EXCEPT
                 !.schedule = SetBlocks(@, i, scenes[scene].length, 0),
                 !.final_arrangement = SetArrangement(@, scene, <<>>),
                 !.stack = [SubSeq(r.stack, 1, k) EXCEPT ![k] = i + 1],
                 !.entered = SubSeq(r.entered, 1, k)]

\* the next step of a running schedule call: the base case, one pass of
\* the innermost loop, or the end of that loop
solve_step(ao, r) ==
    IF scene_idx(r) = Len(r.scene_list) THEN solve_base(r)
    ELSE IF r.stack[Len(r.stack)] < Len(r.schedule) THEN solve_try(ao, r)
    ELSE solve_fail(r)

\* the ledgers after that step
solve_step_ledger(ao, r) ==
    IF /\ scene_idx(r) < Len(r.scene_list)
       /\ r.stack[Len(r.stack)] < Len(r.schedule)
    THEN solve_try_ledger(ao, r)
    ELSE ao

---------------------------------------------------------------------------
(* Arguments of the calls *)

\* conflict[2]: no time, one time, or two consecutive times
TimesArgs ==
    {<<>>} \cup {<<t>> : t \in TimeArgs}
           \cup {<<t, t + interval>> : t \in TimeArgs \ {12}}

\* [name, day, times]
ConflictArgs == NameArgs \X DayArgs \X TimesArgs

\* conflicts of a single time
SingleConflictArgs == {c \in ConflictArgs : Len(c[3]) = 1}

\* lists without repetition over a set
InjSeqs(S) ==
    UNION {{q \in [1..n -> S] : \A a, b \in 1..n : a # b => q[a] # q[b]} :
              n \in 0..Cardinality(S)}

\* schedule's days: days of the grid, each at most once, in any order (the
\* days to consider are a subset of the calendar's days)
DaysArgs == InjSeqs(DOMAIN day_time_chart)

\* schedule's scenes: registered scenes, each at most once, in any order
\* (the scheduler does not account for doing a scene more than once)
SceneListArgs == InjSeqs(DOMAIN scenes)

NoCall == [op |-> "none", conflict |-> <<>>]

---------------------------------------------------------------------------
(* The state machine *)

Init ==
    /\ actor_objects = create_actor_objects
    /\ err = "none"
    /\ nops = 0
    /\ log = NoCall
    /\ hist = create_actor_objects
    /\ run = IdleRun
    /\ prev = NoPrev
    /\ run2 = IdleRun

\* a calendar call, made while no search runs; log and hist record it
CalendarCall(op, conflict, res, max) ==
    /\ run.pc = "idle"
    /\ nops < max
    /\ actor_objects' = res.actor_objects
    /\ err' = res.err
    /\ nops' = nops + 1
    /\ log' = [op |-> op, conflict |-> conflict]
    /\ hist' = actor_objects
    /\ UNCHANGED <<run, prev, run2>>

add_conflict(conflict, max) ==
    CalendarCall("add_conflict", conflict,
                 Calendar_add_conflict(actor_objects, conflict), max)

remove_conflict(conflict, max) ==
    CalendarCall("remove_conflict", conflict,
                 Calendar_remove_conflict(actor_objects, conflict), max)

clear_conflicts(max) ==
    CalendarCall("clear_conflicts", <<>>,
                 [err |-> "none", actor_objects |-> Calendar_clear_conflicts],
                 max)

\* the caller calls schedule(days, scenes)
schedule(days, scene_list) ==
    /\ run.pc = "idle"
    /\ run' = schedule_begin(days, scene_list)
    /\ prev' = NoPrev
    /\ err' = "none"
    /\ log' = NoCall
    /\ hist' = actor_objects
    /\ UNCHANGED <<actor_objects, nops, run2>>

\* the caller keeps the result and calls schedule again with the same
\* arguments, the calendar untouched
schedule_again ==
    /\ run.pc = "done"
    /\ ~prev.valid
    /\ prev' = [valid |-> TRUE, ret |-> run.ret,
                final_arrangement |-> run.final_arrangement]
    /\ run' = schedule_begin(run.days, run.scene_list)
    /\ UNCHANGED <<actor_objects, err, nops, log, hist, run2>>

SolveBase ==
    /\ run.pc = "solve"
    /\ scene_idx(run) = Len(run.scene_list)
    /\ run' = solve_base(run)
    /\ UNCHANGED <<actor_objects, err, nops, log, hist, prev, run2>>

SolveTry ==
    /\ run.pc = "solve"
    /\ scene_idx(run) < Len(run.scene_list)
    /\ run.stack[Len(run.stack)] < Len(run.schedule)
    /\ run' = solve_try(actor_objects, run)
    /\ actor_objects' = solve_try_ledger(actor_objects, run)
    /\ UNCHANGED <<err, nops, log, hist, prev, run2>>

SolveFail ==
    /\ run.pc = "solve"
    /\ scene_idx(run) < Len(run.scene_list)
    /\ run.stack[Len(run.stack)] >= Len(run.schedule)
    /\ run' = solve_fail(run)
    /\ UNCHANGED <<actor_objects, err, nops, log, hist, prev, run2>>

Next ==
    \/ \E c \in SingleConflictArgs : add_conflict(c, MaxOps)
    \/ \E c \in SingleConflictArgs : remove_conflict(c, MaxOps)
    \/ clear_conflicts(MaxOps)
    \/ \E d \in DaysArgs, l \in SceneListArgs : schedule(d, l)
    \/ schedule_again
    \/ SolveBase
    \/ SolveTry
    \/ SolveFail

Spec == Init /\ [][Next]_vars

RECURSIVE ApplyConflicts(_, _)
\* the loop of Calendar.__init__ over its conflicts argument
ApplyConflicts(ao, conflicts) ==
    IF conflicts = <<>> THEN ao
    ELSE ApplyConflicts(
             Calendar_add_conflict(ao, Head(conflicts)).actor_objects,
             Tail(conflicts))

\* the conflicts argument of Calendar.__init__: none, or one conflict of a
\* single time that the constructor adds without raising
InitConflictsArgs ==
    {<<>>} \cup
    {<<c>> : c \in {x \in SingleConflictArgs :
                       Calendar_add_conflict(create_actor_objects, x).err
                           = "none"}}

\* the calendar as constructed with conflicts, nothing called yet
InitWith(conflicts) ==
    /\ actor_objects = ApplyConflicts(create_actor_objects, conflicts)
    /\ err = "none"
    /\ nops = 0
    /\ log = NoCall
    /\ hist = actor_objects
    /\ run = IdleRun
    /\ prev = NoPrev
    /\ run2 = IdleRun

InitLive == \E conflicts \in InitConflictsArgs : InitWith(conflicts)

\* a call of schedule that has started keeps running: the interpreter
\* executes the next step of the search whenever there is one
SolveStep == SolveBase \/ SolveTry \/ SolveFail

\* searches on a calendar constructed with its conflicts, no calendar call
\* made afterwards
NextLive ==
    \/ \E d \in DaysArgs, l \in SceneListArgs : schedule(d, l)
    \/ schedule_again
    \/ SolveBase
    \/ SolveTry
    \/ SolveFail

SpecLive == InitLive /\ [][NextLive]_vars /\ WF_vars(SolveStep)

\* the arguments of two schedule calls that run at the same time: the long
\* day or both days, and the scenes that need actors, each at most once, in
\* any order
TwoDaysArgs == {<<"D1">>, <<"D1", "D2">>}
TwoSceneListArgs == InjSeqs({"S1", "S2"})

\* the second call whose occupancy vector is the one of the first call (a
\* vector kept on the Scheduler object) when that one has the length of the
\* timeline, instead of a new one of its own
Mut_schedule2(days, scene_list) ==
    /\ run2.pc = "idle"
    /\ run2' = [schedule_begin(days, scene_list) EXCEPT
                   !.schedule = IF Len(run.schedule) = Len(@)
                                THEN run.schedule ELSE @]
    /\ UNCHANGED <<actor_objects, err, nops, log, hist, run, prev>>

\* a second caller calls schedule(days, scenes) on the same Scheduler
schedule2(days, scene_list) ==
    /\ run2.pc = "idle"
    /\ run2' = schedule_begin(days, scene_list)
    /\ UNCHANGED <<actor_objects, err, nops, log, hist, run, prev>>

\* the second call takes its next step
SolveStep2 ==
    /\ run2.pc = "solve"
    /\ run2' = solve_step(actor_objects, run2)
    /\ actor_objects' = solve_step_ledger(actor_objects, run2)
    /\ UNCHANGED <<err, nops, log, hist, run, prev>>

\* two calls of schedule on the same Scheduler and Calendar, constructed
\* with its conflicts, their steps interleaved in any order, no calendar
\* call made
NextTwo ==
    \/ \E d \in TwoDaysArgs, l \in TwoSceneListArgs : schedule(d, l)
    \/ SolveBase
    \/ SolveTry
    \/ SolveFail
    \/ \E d \in TwoDaysArgs, l \in TwoSceneListArgs : schedule2(d, l)
    \/ SolveStep2

SpecTwo == InitLive /\ [][NextTwo]_vars

\* the calendar alone, driven by a harness that makes up to MaxCalls calls
NextCal ==
    \/ \E c \in ConflictArgs : add_conflict(c, MaxCalls)
    \/ \E c \in ConflictArgs : remove_conflict(c, MaxCalls)
    \/ clear_conflicts(MaxCalls)

SpecCal == Init /\ [][NextCal]_vars

---------------------------------------------------------------------------
(* What the claims speak of *)

\* schedule has returned; it has returned an assignment
Returned == run.pc = "done"
ReturnedDict == run.pc = "done" /\ run.ret = "dict"

\* the slot values a scene occupies from time_start on:
\* time_start, time_start + interval, ..., one per timeblock of its length
OccupiedTimes(scene, time_start) ==
    {time_start + k * interval : k \in 0..(scenes[scene].length - 1)}

\* the ledger marks the actor available at that day and time
MarkedAvailable(ao, name, day, time) ==
    /\ name \in DOMAIN ao
    /\ day \in DOMAIN ao[name]
    /\ time \in DOMAIN ao[name][day]
    /\ ao[name][day][time] = TRUE

\* the timeline positions a scene claims from start on
ClaimedPositions(scene, start) == start..(start + scenes[scene].length - 1)

\* a complete placement: a start position on the timeline for every scene
\* of the list, the claimed ranges inside the timeline and pairwise
\* disjoint, the feasibility check true for every scene at its start
FeasiblePlacements(ao, timeblocks, scene_list) ==
    {v \in [DOMAIN scene_list -> 0..(Len(timeblocks) - 1)] :
        /\ \A k \in DOMAIN scene_list :
              /\ ClaimedPositions(scene_list[k], v[k])
                     \subseteq 0..(Len(timeblocks) - 1)
              /\ scene_works(ao, scene_list[k], timeblocks[v[k] + 1][1],
                             timeblocks[v[k] + 1][2], DefaultTimeEnd)
        /\ \A k, m \in DOMAIN scene_list :
              k # m => ClaimedPositions(scene_list[k], v[k])
                           \cap ClaimedPositions(scene_list[m], v[m]) = {}}

\* v comes before w, or is w, comparing scene by scene in list order
LexLeq(v, w) ==
    \/ v = w
    \/ \E k \in DOMAIN v :
          /\ v[k] < w[k]
          /\ \A m \in 1..(k - 1) : v[m] = w[m]

\* the timeline position of a <<day, block>> pair
PosOf(timeblocks, pair) ==
    (CHOOSE k \in DOMAIN timeblocks : timeblocks[k] = pair) - 1

\* the start positions of the returned assignment, in list order
ReturnedStarts ==
    [k \in DOMAIN run.scene_list |->
        PosOf(run.timeblocks, run.final_arrangement[run.scene_list[k]])]

---------------------------------------------------------------------------
(* Claims *)

\* C1: in a returned assignment, two distinct scenes assigned to the same
\* day occupy disjoint slot ranges, and every actor of every scene is marked
\* available in the ledger at every slot the scene occupies on its day.
C1_NoOverlapAllAvailable ==
    ReturnedDict =>
        LET fa == run.final_arrangement
        IN  /\ \A s1, s2 \in DOMAIN fa :
                  (s1 # s2 /\ fa[s1][1] = fa[s2][1]) =>
                      OccupiedTimes(s1, fa[s1][2])
                          \cap OccupiedTimes(s2, fa[s2][2]) = {}
            /\ \A s \in DOMAIN fa :
                  \A k \in DOMAIN scenes[s].all_actors :
                      \A t \in OccupiedTimes(s, fa[s][2]) :
                          MarkedAvailable(actor_objects,
                              scenes[s].all_actors[k], fa[s][1], t)

\* two scenes that share an actor were placed on the same day
C1_Witness ==
    /\ ReturnedDict
    /\ run.scene_list = <<"S2", "S1">>
    /\ run.final_arrangement["S1"][1] = run.final_arrangement["S2"][1]
    /\ \E name \in DOMAIN actor_objects, day \in DOMAIN day_time_chart,
          t \in TimeArgs :
          /\ t \in DOMAIN actor_objects[name][day]
          /\ actor_objects[name][day][t] = FALSE

\* C2: the search is exhaustive: schedule returns None exactly when no
\* complete placement of the list exists, and an assignment whenever one
\* does.
C2_Exhaustive ==
    Returned =>
        (run.ret = "None" <=>
            FeasiblePlacements(actor_objects, run.timeblocks,
                               run.scene_list) = {})

\* the two scenes of length 2 that need A, on the one day of 4 slots: they
\* take the two halves of the day
C2_Witness ==
    /\ ReturnedDict
    /\ run.days = <<"D1">>
    /\ run.scene_list = <<"S1", "S2">>
    /\ run.final_arrangement["S1"] = <<"D1", 4>>
    /\ run.final_arrangement["S2"] = <<"D1", 8>>

\* C3: the returned assignment is the first in search order: its start
\* positions are a complete placement and the lexicographically smallest of
\* all complete placements, scene by scene in list order.
C3_FirstInOrder ==
    ReturnedDict =>
        LET F == FeasiblePlacements(actor_objects, run.timeblocks,
                                    run.scene_list)
        IN  /\ ReturnedStarts \in F
            /\ \A v \in F : LexLeq(ReturnedStarts, v)

\* one scene of length 2 needing A, one day of slots 1, 1.5, 2, 2.5, A not
\* available at slot 1: the scene starts at 1.5
C3_Witness ==
    /\ ReturnedDict
    /\ run.days = <<"D1">>
    /\ run.scene_list = <<"S1">>
    /\ actor_objects["A"]["D1"][4] = FALSE
    /\ run.final_arrangement["S1"] = <<"D1", 6>>

\* C4 (as claimed): a list holding a scene longer than every requested day
\* gets None, and in a returned assignment every slot a scene occupies is a
\* slot of its assigned day.
C4_NeverSpansDays ==
    Returned =>
        /\ (\E k \in DOMAIN run.scene_list :
               \A d \in DOMAIN run.days :
                   scenes[run.scene_list[k]].length
                       > Len(day_time_chart[run.days[d]]))
               => run.ret = "None"
        /\ run.ret = "dict" =>
               \A s \in DOMAIN run.final_arrangement :
                   OccupiedTimes(s, run.final_arrangement[s][2]) \subseteq
                       Range(day_time_chart[run.final_arrangement[s][1]])

\* C7: schedule is deterministic: called again with the same arguments on
\* the same calendar it returns what it returned before, None or the same
\* assignment.
C7_Deterministic ==
    (Returned /\ prev.valid) =>
        /\ run.ret = prev.ret
        /\ run.ret = "dict" =>
               run.final_arrangement = prev.final_arrangement

\* a second call has returned an assignment of two scenes
C7_Witness ==
    /\ ReturnedDict
    /\ prev.valid
    /\ Len(run.scene_list) = 2

---------------------------------------------------------------------------
(* Claims about the calendar and the feasibility check, under SpecCal *)

\* the window ends a caller passes to scene_works, the default among them
WindowEndArgs == {8, 10, 12, DefaultTimeEnd}

\* every slot a scene occupies from time_start on is a slot of the day
InsideDay(scene, day, time_start) ==
    /\ day \in DOMAIN day_time_chart
    /\ OccupiedTimes(scene, time_start) \subseteq Range(day_time_chart[day])

\* every actor of the scene is marked available at every slot it occupies
AllAvailable(ao, scene, day, time_start) ==
    \A k \in DOMAIN scenes[scene].all_actors :
        \A t \in OccupiedTimes(scene, time_start) :
            MarkedAvailable(ao, scenes[scene].all_actors[k], day, t)

\* C5 (as claimed): scene_works is true iff the scene ends by the window
\* end, every slot it occupies exists in the day's grid, and every actor is
\* marked available at each of them; a missing slot or day gives false.
C5_FitsIff ==
    \A scene \in DOMAIN scenes, day \in DayArgs, time_start \in TimeArgs,
       time_end \in WindowEndArgs :
        scene_works(actor_objects, scene, day, time_start, time_end)
            <=> /\ time_start + scenes[scene].length * interval <= time_end
                /\ InsideDay(scene, day, time_start)
                /\ AllAvailable(actor_objects, scene, day, time_start)

\* no slot of any ledger is marked unavailable
ZeroConflicts(ao) ==
    \A name \in DOMAIN ao : \A day \in DOMAIN ao[name] :
        \A t \in DOMAIN ao[name][day] : ao[name][day][t] = TRUE

\* C6 (as claimed): with zero conflicts, for every scene, day and slot of
\* the day, scene_works is true when the scene stays within the day's grid
\* and false when it would overrun the end of the day.
C6_FitsWithoutConflicts ==
    ZeroConflicts(actor_objects) =>
        \A scene \in DOMAIN scenes, day \in DOMAIN day_time_chart :
            \A k \in DOMAIN day_time_chart[day] :
                scene_works(actor_objects, scene, day,
                            day_time_chart[day][k], DefaultTimeEnd)
                    <=> InsideDay(scene, day, day_time_chart[day][k])

\* the conflict just added names an actor of the scene, on the day asked,
\* at a slot the scene occupies from time_start on, where scene_works was
\* true before the conflict was added
C8_Case(scene, time_start, time_end) ==
    /\ log.op = "add_conflict"
    /\ err = "none"
    /\ log.conflict[1] \in Range(scenes[scene].all_actors)
    /\ Range(log.conflict[3]) \cap OccupiedTimes(scene, time_start) # {}
    /\ scene_works(hist, scene, log.conflict[2], time_start, time_end)

\* C8: where scene_works is true, marking an actor of the scene unavailable
\* at a slot the scene occupies makes it false, and clearing that same
\* conflict makes it true again.
C8_RoundTrip ==
    \A scene \in DOMAIN scenes, time_start \in TimeArgs,
       time_end \in WindowEndArgs :
        C8_Case(scene, time_start, time_end) =>
            /\ ~scene_works(actor_objects, scene, log.conflict[2],
                            time_start, time_end)
            /\ scene_works(
                   Calendar_remove_conflict(actor_objects,
                                            log.conflict).actor_objects,
                   scene, log.conflict[2], time_start, time_end)

\* a conflict of two slots was added, one of them inside a scene that fitted
C8_Witness ==
    /\ Len(log.conflict) = 3
    /\ Len(log.conflict[3]) = 2
    /\ \E scene \in DOMAIN scenes, time_start \in TimeArgs :
          /\ C8_Case(scene, time_start, DefaultTimeEnd)
          /\ ~(Range(log.conflict[3])
                  \subseteq OccupiedTimes(scene, time_start))

\* C9: adding a conflict is idempotent: after add_conflict, adding the same
\* conflict again leaves every actor's ledger, and the outcome, as they are.
C9_AddIdempotent ==
    log.op = "add_conflict" =>
        Calendar_add_conflict(actor_objects, log.conflict)
            = [err |-> err, actor_objects |-> actor_objects]

\* the conflict was added after another call and changed the ledger
C9_Witness ==
    /\ log.op = "add_conflict"
    /\ err = "none"
    /\ nops = 2
    /\ hist # actor_objects
    /\ actor_objects = Calendar_add_conflict(hist, log.conflict).actor_objects

\* the actor's ledger holds the slot and marks it unavailable
MarkedUnavailable(ao, name, day, time) ==
    /\ name \in DOMAIN ao
    /\ day \in DOMAIN ao[name]
    /\ time \in DOMAIN ao[name][day]
    /\ ao[name][day][time] = FALSE

\* the lists of declared actors a group query may name
GroupArgs == InjSeqs(Range(names))

\* C10 (as claimed): for every group of actors, day and sequence of slots,
\* Calendar.is_available is false iff some named actor is unavailable at
\* some requested slot, it is the conjunction of the actors' own
\* is_available results, and it does not depend on the order of the actors.
C10_GroupIsConjunction ==
    \A group \in GroupArgs, day \in DayArgs, times \in TimesArgs :
        LET res == Calendar_is_available(actor_objects, group, day, times)
        IN  /\ res = "False" <=>
                   \E k \in DOMAIN group, t \in Range(times) :
                       MarkedUnavailable(actor_objects, group[k], day, t)
            /\ res = "True" <=>
                   \A k \in DOMAIN group :
                       Actor_is_available(actor_objects[group[k]], day,
                                          times) = "True"
            /\ \A other \in GroupArgs :
                   Range(other) = Range(group) =>
                       Calendar_is_available(actor_objects, other, day,
                                             times) = res

---------------------------------------------------------------------------
(* Claims about unknown days and slots, under SpecCal *)

\* the ledgers are those of the declared actors and their keys are the
\* (day, slot) pairs of the grid
GridKeys(ao) ==
    /\ DOMAIN ao = Range(names)
    /\ \A name \in DOMAIN ao :
          /\ DOMAIN ao[name] = DOMAIN day_time_chart
          /\ \A day \in DOMAIN ao[name] :
                DOMAIN ao[name][day] = Range(day_time_chart[day])

\* the day, or one of the times, is not in the grid
UnknownToGrid(day, times) ==
    \/ day \notin DOMAIN day_time_chart
    \/ \E t \in Range(times) : t \notin Range(day_time_chart[day])

\* C11 (as claimed): add_conflict for a declared actor with a day or a slot
\* unknown to the grid raises nothing and leaves the ledgers as they were,
\* and after any sequence of add_conflict / remove_conflict calls the keys
\* of every ledger are exactly the (day, slot) pairs of the grid.
C11_UnknownIsNoOp ==
    /\ GridKeys(actor_objects)
    /\ (/\ log.op = "add_conflict"
        /\ log.conflict[1] \in Range(names)
        /\ UnknownToGrid(log.conflict[2], log.conflict[3]))
           => (err = "none" /\ actor_objects = hist)

\* the day, or one of the times, is not a key of the actor's ledger
UnknownToLedger(conflict_chart, day, times) ==
    \/ day \notin DOMAIN conflict_chart
    \/ \E t \in Range(times) : t \notin DOMAIN conflict_chart[day]

\* C12 (as claimed): Actor.is_available, asked about at least one time,
\* raises the lookup failure whenever the day or any of the times asked is
\* unknown to the ledger, whatever the other times are; it returns neither
\* True nor False for such a query.
C12_UnknownSignalsFailure ==
    \A name \in DOMAIN actor_objects, day \in DayArgs, times \in TimesArgs :
        (times # <<>> /\ UnknownToLedger(actor_objects[name], day, times))
            => Actor_is_available(actor_objects[name], day, times)
                   = "KeyError"

---------------------------------------------------------------------------
(* Claims about clear_conflicts, under SpecCal *)

\* every key of every ledger is marked available
AllMarkedAvailable(ao) ==
    \A name \in DOMAIN ao : \A day \in DOMAIN ao[name] :
        \A t \in DOMAIN ao[name][day] : ao[name][day][t] = TRUE

\* C13: after clear_conflicts, whatever calls came before it, every declared
\* actor has a ledger whose keys are exactly the (day, slot) pairs of the
\* grid, all marked available, and the call raises nothing.
C13_ClearRebuilds ==
    log.op = "clear_conflicts" =>
        /\ err = "none"
        /\ GridKeys(actor_objects)
        /\ AllMarkedAvailable(actor_objects)

\* clear_conflicts was called on a ledger that held a slot outside the grid
\* and a slot marked unavailable
C13_Witness ==
    /\ log.op = "clear_conflicts"
    /\ ~GridKeys(hist)
    /\ ~AllMarkedAvailable(hist)
    /\ actor_objects # hist

---------------------------------------------------------------------------
(* Claims about the search's effect on the calendar, under Spec *)

\* C14: scene_works and schedule only read the calendar: from the call of
\* schedule on, through every call of scene_works the search makes, to its
\* return with an assignment or with None, and through a second call, every
\* ledger is what it was when schedule was called (so scene_works, which
\* depends on its arguments and the ledgers only, returns the same again).
C14_ReadOnly ==
    run.pc # "idle" => actor_objects = hist

\* two calls of schedule have returned None for two scenes that need
\* actors, one of them with a conflict, on the short day
C14_Witness ==
    /\ Returned
    /\ prev.valid
    /\ run.ret = "None"
    /\ run.days = <<"D2">>
    /\ run.scene_list = <<"S1", "S2">>
    /\ ~AllMarkedAvailable(actor_objects)

---------------------------------------------------------------------------
(* Claims about return_scenes_that_fit, under SpecCal *)

\* the keys of Scheduler.scenes in the order the dictionary was filled
scene_keys == <<"S1", "S2", "S3">>

\* Scheduler.return_scenes_that_fit: the loop over the scenes and, inside
\* it, over generate_times(time_start, time_end).  An entry <<scene, time>>
\* stands for the string scene + " at " + str(time) the source appends
return_scenes_that_fit(ao, day, time_start, time_end) ==
    LET times == generate_times(time_start, time_end)
        m == Len(times)
        pairs == [k \in 1..(Len(scene_keys) * m) |->
                     <<scene_keys[((k - 1) \div m) + 1],
                       times[((k - 1) % m) + 1]>>]
        works(p) == scene_works(ao, p[1], day, p[2], time_end)
    IN  SelectSeq(pairs, works)

\* the window ends a caller passes to return_scenes_that_fit: one that is
\* no multiple of the interval away from the start, the end of the long
\* day, and one past it
FitEndArgs == {7, 12, 14}

\* the times of the half-open window [time_start, time_end) stepped by the
\* interval from time_start
WindowTimes(time_start, time_end) ==
    {t \in time_start..(time_end - 1) : (t - time_start) % interval = 0}

\* C15 (as claimed): return_scenes_that_fit reports exactly the pairs of a
\* registered scene and a time of the window [time_start, time_end) stepped
\* by the interval for which scene_works(scene, day, time, time_end) is
\* true, and every reported scene ends by time_end, lies wholly on slots of
\* that day's grid, and has all its actors marked available there.
C15_FitsInWindow ==
    \A day \in DayArgs, time_start \in TimeArgs, time_end \in FitEndArgs :
        LET res == return_scenes_that_fit(actor_objects, day, time_start,
                                          time_end)
        IN  /\ Range(res) =
                   {p \in (DOMAIN scenes)
                              \X WindowTimes(time_start, time_end) :
                       scene_works(actor_objects, p[1], day, p[2],
                                   time_end)}
            /\ Len(res) = Cardinality(Range(res))
            /\ \A p \in Range(res) :
                  /\ p[2] + scenes[p[1]].length * interval <= time_end
                  /\ InsideDay(p[1], day, p[2])
                  /\ AllAvailable(actor_objects, p[1], day, p[2])

---------------------------------------------------------------------------
(* Claims about the course of the search *)

\* stack s comes before stack t in the order of the search: t goes on from
\* s with one more frame, or at the first frame where they differ the loop
\* index of s is the smaller
StackBefore(s, t) ==
    \/ /\ Len(s) < Len(t)
       /\ \A k \in DOMAIN s : s[k] = t[k]
    \/ \E k \in DOMAIN s \cap DOMAIN t :
          /\ s[k] < t[k]
          /\ \A j \in 1..(k - 1) : s[j] = t[j]

\* C16: every call of schedule terminates (under SpecLive, where a started
\* search keeps taking steps); it ends in exactly one of two ways, with an
\* assignment from the frame whose scene_idx equals the length of the scene
\* list, or with None from the frame of the first scene once its loop is
\* over; and from step to step the stack of loop indices moves strictly
\* forward in the order of the search, so no (scene index, start position)
\* is tried twice under the same placements of the scenes before it.
C16_Terminates ==
    /\ (run.pc = "solve") ~> (run.pc = "done")
    /\ [][(run.pc = "solve" /\ run'.pc = "solve")
             => StackBefore(run.stack, run'.stack)]_vars
    /\ [][(run.pc = "solve" /\ run'.pc = "done") =>
             \/ /\ scene_idx(run) = Len(run.scene_list)
                /\ run'.ret = "dict"
             \/ /\ scene_idx(run) = 0
                /\ scene_idx(run) < Len(run.scene_list)
                /\ run.stack[1] >= Len(run.schedule)
                /\ run'.ret = "None"]_vars

\* a search over both days for three scenes that cannot all be placed has
\* ended with None
C16_Witness ==
    /\ Returned
    /\ run.ret = "None"
    /\ Len(run.scene_list) = 3
    /\ Len(run.timeblocks) = 6

\* the innermost frame's loop is over: it is about to return False
LevelFails ==
    /\ run.pc = "solve"
    /\ scene_idx(run) < Len(run.scene_list)
    /\ run.stack[Len(run.stack)] >= Len(run.schedule)

\* C17: when a frame of schedule_solve returns False the occupancy vector is
\* what it was when the frame was entered and the scene the frame tried has
\* no placement in the arrangement (the empty record written on giving it
\* up, or no record if it was never placed); and when schedule returns None
\* no position of the occupancy vector is claimed.
C17_BacktrackRestores ==
    /\ LevelFails =>
          LET scene == run.scene_list[scene_idx(run) + 1]
          IN  /\ run.schedule = run.entered[Len(run.stack)]
              /\ scene \in DOMAIN run.final_arrangement
                     => run.final_arrangement[scene] = <<>>
    /\ (Returned /\ run.ret = "None") =>
          \A k \in DOMAIN run.schedule : run.schedule[k] = 0

\* the frame of the second of three scenes returns False, entered with
\* blocks claimed by the first scene, after it had placed its scene and
\* given it up
C17_Witness ==
    /\ LevelFails
    /\ Len(run.stack) = 2
    /\ Len(run.scene_list) = 3
    /\ \E k \in DOMAIN run.schedule : run.entered[2][k] = 1
    /\ run.scene_list[2] \in DOMAIN run.final_arrangement
    /\ run.final_arrangement[run.scene_list[2]] = <<>>

\* the start position the frame at depth k has its scene placed at
PlacedAt(k) == run.stack[k]

\* the depths of the frames whose scene is placed: all but the innermost
PlacedDepths == 1..(Len(run.stack) - 1)

\* C18: at every step of the search, with the innermost frame at scene index
\* k, exactly the scenes at indices 0..k-1 of the list are placed, each
\* recorded at the timeline entry of its start position; the claimed
\* positions of the occupancy vector are exactly the union of the ranges
\* i..i+length-1 of the placed scenes; the ranges lie inside the timeline
\* and are pairwise disjoint.
C18_PlacedPrefix ==
    run.pc = "solve" =>
        LET fa == run.final_arrangement
            claimed(k) == ClaimedPositions(run.scene_list[k], PlacedAt(k))
        IN  /\ \A k \in PlacedDepths :
                  /\ run.scene_list[k] \in DOMAIN fa
                  /\ fa[run.scene_list[k]] = run.timeblocks[PlacedAt(k) + 1]
                  /\ claimed(k) \subseteq 0..(Len(run.schedule) - 1)
            /\ \A k \in DOMAIN run.scene_list \ PlacedDepths :
                  run.scene_list[k] \in DOMAIN fa
                      => fa[run.scene_list[k]] = <<>>
            /\ {p \in 0..(Len(run.schedule) - 1) : run.schedule[p + 1] = 1}
                   = UNION {claimed(k) : k \in PlacedDepths}
            /\ \A k, j \in PlacedDepths :
                  k # j => claimed(k) \cap claimed(j) = {}
            /\ \A p \in DOMAIN run.schedule : run.schedule[p] \in {0, 1}

\* two scenes are placed and the third is being tried, after the search has
\* gone back at least once (the first scene is not at its first position)
C18_Witness ==
    /\ run.pc = "solve"
    /\ Len(run.scene_list) = 3
    /\ Len(run.stack) = 3
    /\ run.scene_list[1] = "S1"
    /\ PlacedAt(1) > 0
    /\ actor_objects = create_actor_objects

\* what schedule returns: final_arrangement when schedule_solve returned
\* True, None otherwise
schedule_result(r) ==
    IF r.ret = "dict" THEN r.final_arrangement ELSE "None"

\* C19: what schedule returns is well formed: either an assignment whose
\* keys are exactly the scenes of the list, each mapped to a <<day, block>>
\* entry of the timeline built from the requested days (never the empty
\* record written on giving a scene up), or None when the search is
\* exhausted, never an assignment of part of the list.
C19_WellFormed ==
    Returned =>
        /\ run.ret \in {"dict", "None"}
        /\ run.ret = "dict" =>
              /\ DOMAIN schedule_result(run) = Range(run.scene_list)
              /\ \A s \in DOMAIN schedule_result(run) :
                    /\ schedule_result(run)[s] \in Range(run.timeblocks)
                    /\ schedule_result(run)[s][1] \in Range(run.days)
        /\ run.ret = "None" => schedule_result(run) = "None"

\* an assignment of two scenes is returned after the first scene was placed
\* at the start of the day, which it fits, and given up again
C19_Witness ==
    /\ ReturnedDict
    /\ run.days = <<"D1">>
    /\ run.scene_list = <<"S1", "S2">>
    /\ scene_works(actor_objects, "S1", "D1", 4, DefaultTimeEnd)
    /\ schedule_result(run)["S1"] = <<"D1", 8>>
    /\ schedule_result(run)["S2"] = <<"D1", 4>>

---------------------------------------------------------------------------
(* Claims about two calls of schedule at the same time, under SpecTwo *)

RECURSIVE SoloReaches(_, _, _)
\* the call that runs alone from frame `from` on comes to frame `to`
SoloReaches(ao, from, to) ==
    IF from = to THEN TRUE
    ELSE IF from.pc # "solve" THEN FALSE
    ELSE SoloReaches(ao, solve_step(ao, from), to)

\* the frame r is one the call with r's arguments comes to when it runs
\* alone on the same calendar
AsAlone(r) ==
    r.pc # "idle" =>
        SoloReaches(actor_objects, schedule_begin(r.days, r.scene_list), r)

\* C20: with two calls of schedule on the same Scheduler and Calendar
\* interleaved step by step in any order, the occupancy vector, the
\* arrangement and the loop indices of each call are at every step what
\* they are at some step of that call running alone, and each call returns
\* what it returns alone.
C20_Isolated ==
    /\ AsAlone(run)
    /\ AsAlone(run2)

\* both calls are inside the search with different scene lists, each has
\* placed a scene, and one timeline position is claimed in both occupancy
\* vectors
C20_Witness ==
    /\ run.pc = "solve"
    /\ run2.pc = "solve"
    /\ run.scene_list # run2.scene_list
    /\ Len(run.stack) = 2
    /\ Len(run2.stack) = 2
    /\ run.stack # run2.stack
    /\ \E p \in DOMAIN run.schedule :
          run.schedule[p] = 1 /\ run2.schedule[p] = 1

====
